---- MODULE Spec2Model ----
(***************************************************************************)
(* WorldChunk (src/components/classes/world-chunk.ts): the block grid of   *)
(* one chunk, its procedural generation (resources, terrain, player        *)
(* changes, meshes) and the incremental addBlock / removeBlock with        *)
(* swap-with-last instance deletion.                                       *)
(*                                                                         *)
(* Methods that mutate `this` are operators from the fields they read to   *)
(* the fields they write; the actions Generate, AddBlock and RemoveBlock   *)
(* apply them to the state.                                                *)
(***************************************************************************)
EXTENDS Integers, Sequences, FiniteSets, TLC

\* The largest size.width and size.height of a chunk under verification.
MaxWidth == 3
MaxHeight == 3
\* Number of public calls (generate / addBlock / removeBlock) in a behaviour.
MaxCalls == 3

VARIABLES
    size,          \* this.size: [width, height]
    data,          \* this.data: cell <<x, y, z>> -> [id, instanceId]
    loaded,        \* this.loaded
    children,      \* this.children: the list of meshes [name, count, instanceMatrix]
    dataStore,     \* this.dataStore: key <<chunkX, chunkZ, x, y, z>> -> block id
    position,      \* this.position (x and z of the chunk's origin)
    heightField,   \* column <<x, z>> -> Math.floor(size.height * scaledNoise)
    oreField,      \* resource index -> cells where noise3d(...) > resource.scarcity
    last,          \* the last public call and what its target looked like before it
    calls          \* number of public calls made so far

vars ==
    <<size, data, loaded, children, dataStore, position, heightField, oreField,
      last, calls>>

\* this.size.width and this.size.height.
Width == size.width
Height == size.height

----------------------------------------------------------------------------
\* The block registry (lib/blocks): ids of the block types, resources in
\* iteration order.
blocks ==
    [empty   |-> [id |-> 0],
     grass   |-> [id |-> 1],
     dirt    |-> [id |-> 2],
     stone   |-> [id |-> 3],
     coalOre |-> [id |-> 4]]

resources == <<blocks.stone, blocks.coalOre>>

BlockIds == {blocks.empty.id, blocks.grass.id, blocks.dirt.id, blocks.stone.id, blocks.coalOre.id}

\* Object.values(blocks).filter(blockType => blockType.id !== blocks.empty.id)
MeshIds == BlockIds \ {blocks.empty.id}

\* `null` as the value of getBlock, and as the value of a cell's instanceId
\* (instance ids are array indices, so no index equals it).
null == [absent |-> TRUE]
nullInstance == 0 - 1

Cells == (0 .. Width - 1) \X (0 .. Height - 1) \X (0 .. Width - 1)
Columns == (0 .. Width - 1) \X (0 .. Width - 1)

Max(a, b) == IF a >= b THEN a ELSE b
Min(a, b) == IF a <= b THEN a ELSE b

----------------------------------------------------------------------------
\* DataStore (components/classes/data-store): a map keyed by the chunk's
\* origin and the block's local coordinate.
storeKey(chunkX, chunkZ, x, y, z) == <<chunkX, chunkZ, x, y, z>>

storeContains(store, chunkX, chunkZ, x, y, z) ==
    storeKey(chunkX, chunkZ, x, y, z) \in DOMAIN store

storeGet(store, chunkX, chunkZ, x, y, z) ==
    store[storeKey(chunkX, chunkZ, x, y, z)]

storeSet(store, chunkX, chunkZ, x, y, z, blockId) ==
    (storeKey(chunkX, chunkZ, x, y, z) :> blockId) @@ store

emptyStore == [k \in {} |-> blocks.empty.id]

----------------------------------------------------------------------------
\* THREE.Matrix4 / THREE.InstancedMesh as the chunk uses them.  A matrix is
\* its translation column t and its element [3][3] (w): setPosition on a new
\* Matrix4 gives w = 1, a slot of a new instanceMatrix buffer is all zeros.
zeroMatrix == [t |-> <<0, 0, 0>>, w |-> 0]

setPosition(x, y, z) == [t |-> <<x, y, z>>, w |-> 1]

\* new Vector3().applyMatrix4(m): the translation divided by w; with w = 0
\* every component is NaN, which fails every comparison of inBounds.
\* NaNVector stands for it: a vector outside every chunk.
NaNVector == <<0 - 1, 0 - 1, 0 - 1>>

applyMatrix4(m) == IF m.w = 0 THEN NaNVector ELSE m.t

maxCount == Width * Height * Width

\* new THREE.InstancedMesh(geometry, material, maxCount) with mesh.name set
\* to the block id and mesh.count = 0.
newMesh(name) ==
    [name |-> name, count |-> 0,
     instanceMatrix |-> [i \in 0 .. maxCount - 1 |-> zeroMatrix]]

\* The position in this.children of the mesh that
\* children.find(instancedMesh => instancedMesh.name === id.toString())
\* returns: the first one of that name.
meshIndex(ch, name) ==
    CHOOSE i \in 1 .. Len(ch) :
        /\ ch[i].name = name
        /\ \A j \in 1 .. i - 1 : ch[j].name # name

findMesh(ch, name) == ch[meshIndex(ch, name)]

\* The mesh found, replaced by its state after the call's writes to it.
withMesh(ch, name, mesh) == [ch EXCEPT ![meshIndex(ch, name)] = mesh]

\* mesh.getMatrixAt(index): outside the buffer the elements read are undefined.
getMatrixAt(mesh, index) ==
    IF index \in DOMAIN mesh.instanceMatrix THEN mesh.instanceMatrix[index] ELSE zeroMatrix

\* mesh.setMatrixAt(index, matrix): a typed array ignores writes outside it.
setMatrixAt(mesh, index, matrix) ==
    IF index \in DOMAIN mesh.instanceMatrix
    THEN [mesh EXCEPT !.instanceMatrix[index] = matrix]
    ELSE mesh

----------------------------------------------------------------------------
\* Bounds and cell access.

inBounds(x, y, z) ==
    IF x >= 0 /\ x < Width /\ y >= 0 /\ y < Height /\ z >= 0 /\ z < Width
    THEN TRUE
    ELSE FALSE

getBlock(d, x, y, z) ==
    IF inBounds(x, y, z) THEN d[<<x, y, z>>] ELSE null

\* Mutant: no bounds check; a coordinate outside the grid gets a cell.
setBlockId_unchecked(d, x, y, z, id) ==
    IF <<x, y, z>> \in DOMAIN d
    THEN [d EXCEPT ![<<x, y, z>>].id = id]
    ELSE (<<x, y, z>> :> [id |-> id, instanceId |-> nullInstance]) @@ d

setBlockId(d, x, y, z, id) ==
    IF inBounds(x, y, z) THEN [d EXCEPT ![<<x, y, z>>].id = id] ELSE d

setBlockInstanceId(d, x, y, z, instanceId) ==
    IF inBounds(x, y, z) THEN [d EXCEPT ![<<x, y, z>>].instanceId = instanceId] ELSE d

\* Mutant: a neighbour outside the chunk counts as a solid block.
neighbourId_solidOutside(d, x, y, z) ==
    LET block == getBlock(d, x, y, z)
    IN  IF block = null THEN blocks.stone.id ELSE block.id

\* this.getBlock(x, y, z)?.id ?? blocks.empty.id
neighbourId(d, x, y, z) ==
    LET block == getBlock(d, x, y, z)
    IN  IF block = null THEN blocks.empty.id ELSE block.id

\* Mutant: the test of the `up` neighbour is left out.
isBlockObscured_noUp(d, x, y, z) ==
    LET down    == neighbourId(d, x, y - 1, z)
        left    == neighbourId(d, x + 1, y, z)
        right   == neighbourId(d, x - 1, y, z)
        forward == neighbourId(d, x, y, z + 1)
        back    == neighbourId(d, x, y, z - 1)
    IN  IF \/ down = blocks.empty.id
           \/ left = blocks.empty.id
           \/ right = blocks.empty.id
           \/ forward = blocks.empty.id
           \/ back = blocks.empty.id
        THEN FALSE
        ELSE TRUE

isBlockObscured(d, x, y, z) ==
    LET up      == neighbourId(d, x, y + 1, z)
        down    == neighbourId(d, x, y - 1, z)
        left    == neighbourId(d, x + 1, y, z)
        right   == neighbourId(d, x - 1, y, z)
        forward == neighbourId(d, x, y, z + 1)
        back    == neighbourId(d, x, y, z - 1)
    IN  IF \/ up = blocks.empty.id
           \/ down = blocks.empty.id
           \/ left = blocks.empty.id
           \/ right = blocks.empty.id
           \/ forward = blocks.empty.id
           \/ back = blocks.empty.id
        THEN FALSE
        ELSE TRUE

----------------------------------------------------------------------------
\* generate() and its five steps.  A `for` nest is a nest of recursive
\* functions of the grid built so far and the loop counters.

Grids == [Cells -> [id : BlockIds, instanceId : nullInstance .. maxCount - 1]]

Meshes == [name : MeshIds,
           count : 0 .. maxCount,
           instanceMatrix : [0 .. maxCount - 1 ->
                                [t : (0 .. Width - 1) \X (0 .. Height - 1) \X (0 .. Width - 1),
                                 w : {1}] \cup {zeroMatrix}]]

Xs == 0 .. Width
Ys == 0 .. Height + 1
Zs == 0 .. Width

\* Mutant: this.data is not reset; the cells of a grid that exists are
\* emptied and keep their instanceId.
initializeTerrain_keepsInstanceIds(d) ==
    [c \in Cells |->
        [id |-> blocks.empty.id,
         instanceId |-> IF c \in DOMAIN d THEN d[c].instanceId ELSE nullInstance]]

\* this.data = [] and the three loops that push the cells; d is this.data
\* before the call.
initializeTerrain(d) ==
    [c \in Cells |-> [id |-> blocks.empty.id, instanceId |-> nullInstance]]

\* Mutant: a resource is placed only in a cell that is still empty, so the
\* first qualifying resource stays.
generateResources_firstWins(d, ore) ==
    LET forZ[g \in Grids, r \in 1 .. Len(resources), x \in Xs, y \in Ys, z \in Zs] ==
            IF z >= Width THEN g
            ELSE forZ[IF <<x, y, z>> \in ore[r] /\ g[<<x, y, z>>].id = blocks.empty.id
                      THEN setBlockId(g, x, y, z, resources[r].id)
                      ELSE g,
                      r, x, y, z + 1]
        forY[g \in Grids, r \in 1 .. Len(resources), x \in Xs, y \in Ys] ==
            IF y >= Height THEN g ELSE forY[forZ[g, r, x, y, 0], r, x, y + 1]
        forX[g \in Grids, r \in 1 .. Len(resources), x \in Xs] ==
            IF x >= Width THEN g ELSE forX[forY[g, r, x, 0], r, x + 1]
        forEach[g \in Grids, r \in 1 .. Len(resources) + 1] ==
            IF r > Len(resources) THEN g ELSE forEach[forX[g, r, 0], r + 1]
    IN  forEach[d, 1]

\* ore[r] holds the cells where `value > resource.scarcity` for resources[r].
generateResources(d, ore) ==
    LET forZ[g \in Grids, r \in 1 .. Len(resources), x \in Xs, y \in Ys, z \in Zs] ==
            IF z >= Width THEN g
            ELSE forZ[IF <<x, y, z>> \in ore[r]
                      THEN setBlockId(g, x, y, z, resources[r].id)
                      ELSE g,
                      r, x, y, z + 1]
        forY[g \in Grids, r \in 1 .. Len(resources), x \in Xs, y \in Ys] ==
            IF y >= Height THEN g ELSE forY[forZ[g, r, x, y, 0], r, x, y + 1]
        forX[g \in Grids, r \in 1 .. Len(resources), x \in Xs] ==
            IF x >= Width THEN g ELSE forX[forY[g, r, x, 0], r, x + 1]
        forEach[g \in Grids, r \in 1 .. Len(resources) + 1] ==
            IF r > Len(resources) THEN g ELSE forEach[forX[g, r, 0], r + 1]
    IN  forEach[d, 1]

\* Mutant: the height is not raised to 0.
clampHeight_noLowerBound(height) == Min(height, Height - 1)

\* height = Math.max(0, Math.min(height, this.size.height - 1))
clampHeight(height) == Max(0, Min(height, Height - 1))

\* Mutant: cells below the surface become dirt whatever they hold.
terrainStep_noEmptyTest(d, x, y, z, height) ==
    IF y < height
    THEN setBlockId(d, x, y, z, blocks.dirt.id)
    ELSE IF y = height
    THEN setBlockId(d, x, y, z, blocks.grass.id)
    ELSE IF y > height
    THEN setBlockId(d, x, y, z, blocks.empty.id)
    ELSE d

\* The body of the y loop of generateTerrain.
terrainStep(d, x, y, z, height) ==
    LET block == getBlock(d, x, y, z)
    IN  IF y < height /\ block # null /\ block.id = blocks.empty.id
        THEN setBlockId(d, x, y, z, blocks.dirt.id)
        ELSE IF y = height
        THEN setBlockId(d, x, y, z, blocks.grass.id)
        ELSE IF y > height
        THEN setBlockId(d, x, y, z, blocks.empty.id)
        ELSE d

\* field[<<x, z>>] is Math.floor(this.size.height * scaledNoise) of the column.
generateTerrain(d, field) ==
    LET forY[g \in Grids, x \in Xs, z \in Zs, y \in Ys] ==
            IF y > Height THEN g
            ELSE forY[terrainStep(g, x, y, z, clampHeight(field[<<x, z>>])), x, z, y + 1]
        forZ[g \in Grids, x \in Xs, z \in Zs] ==
            IF z >= Width THEN g ELSE forZ[forY[g, x, z, 0], x, z + 1]
        forX[g \in Grids, x \in Xs] ==
            IF x >= Width THEN g ELSE forX[forZ[g, x, 0], x + 1]
    IN  forX[d, 0]

\* Mutant: a stored id is applied only when it is truthy (`if (blockId)`),
\* so a stored deletion is skipped.
loadPlayerChanges_truthy(d, store, pos) ==
    LET forZ[g \in Grids, x \in Xs, y \in Ys, z \in Zs] ==
            IF z >= Width THEN g
            ELSE forZ[IF /\ storeContains(store, pos.x, pos.z, x, y, z)
                         /\ storeGet(store, pos.x, pos.z, x, y, z) # 0
                      THEN setBlockId(g, x, y, z, storeGet(store, pos.x, pos.z, x, y, z))
                      ELSE g,
                      x, y, z + 1]
        forY[g \in Grids, x \in Xs, y \in Ys] ==
            IF y >= Height THEN g ELSE forY[forZ[g, x, y, 0], x, y + 1]
        forX[g \in Grids, x \in Xs] ==
            IF x >= Width THEN g ELSE forX[forY[g, x, 0], x + 1]
    IN  forX[d, 0]

loadPlayerChanges(d, store, pos) ==
    LET forZ[g \in Grids, x \in Xs, y \in Ys, z \in Zs] ==
            IF z >= Width THEN g
            ELSE forZ[IF storeContains(store, pos.x, pos.z, x, y, z)
                      THEN setBlockId(g, x, y, z, storeGet(store, pos.x, pos.z, x, y, z))
                      ELSE g,
                      x, y, z + 1]
        forY[g \in Grids, x \in Xs, y \in Ys] ==
            IF y >= Height THEN g ELSE forY[forZ[g, x, y, 0], x, y + 1]
        forX[g \in Grids, x \in Xs] ==
            IF x >= Width THEN g ELSE forX[forY[g, x, 0], x + 1]
    IN  forX[d, 0]

\* The body of the scan of generateMeshes; g is [data, meshes], meshes the
\* lookup table from block id to mesh.
meshStep(g, x, y, z) ==
    LET blockId == getBlock(g.data, x, y, z).id
    IN  IF blockId = blocks.empty.id THEN g
        ELSE LET mesh == g.meshes[blockId]
                 instanceId == mesh.count
             IN  IF ~isBlockObscured(g.data, x, y, z)
                 THEN [data |-> setBlockInstanceId(g.data, x, y, z, instanceId),
                       meshes |->
                           [g.meshes EXCEPT ![blockId] =
                               [setMatrixAt(mesh, instanceId, setPosition(x, y, z))
                                   EXCEPT !.count = mesh.count + 1]]]
                 ELSE g

\* Object.values(meshes): the meshes in ascending order of their integer key.
objectValues(meshes) ==
    [i \in 1 .. Cardinality(DOMAIN meshes) |->
        meshes[CHOOSE t \in DOMAIN meshes :
                   Cardinality({u \in DOMAIN meshes : u < t}) = i - 1]]

\* The scan of generateMeshes over the cells, from the new lookup table.
meshScan(d) ==
    LET Scenes == [data : Grids, meshes : [MeshIds -> Meshes]]
        forZ[g \in Scenes, x \in Xs, y \in Ys, z \in Zs] ==
            IF z >= Width THEN g ELSE forZ[meshStep(g, x, y, z), x, y, z + 1]
        forY[g \in Scenes, x \in Xs, y \in Ys] ==
            IF y >= Height THEN g ELSE forY[forZ[g, x, y, 0], x, y + 1]
        forX[g \in Scenes, x \in Xs] ==
            IF x >= Width THEN g ELSE forX[forY[g, x, 0], x + 1]
    IN  forX[[data |-> d, meshes |-> [t \in MeshIds |-> newMesh(t)]], 0]

\* generateMeshes without this.clear(): the new meshes are added after the
\* ones of the previous generation.
generateMeshes_noClear(d, ch) ==
    LET g == meshScan(d)
    IN  [data |-> g.data, children |-> ch \o objectValues(g.meshes)]

\* this.clear(), one new mesh per block type other than empty, the scan,
\* this.add(...Object.values(meshes)); ch is this.children before the call.
generateMeshes(d, ch) ==
    LET cleared == <<>>
        g == meshScan(d)
    IN  [data |-> g.data, children |-> cleared \o objectValues(g.meshes)]

\* d and ch are this.data and this.children before the call.
generate(d, ch, store, pos, field, ore) ==
    LET d0 == initializeTerrain(d)
        d1 == generateResources(d0, ore)
        d2 == generateTerrain(d1, field)
        d3 == loadPlayerChanges(d2, store, pos)
    IN  generateMeshes(d3, ch)

----------------------------------------------------------------------------
\* Incremental updates.  Each operator maps [data, children, dataStore] to
\* the same record after the call.

\* Mutant: `mesh.count` instead of `mesh.count++`.
addBlockInstance_noIncrement(d, ch, x, y, z) ==
    LET block == getBlock(d, x, y, z)
    IN  IF block # null /\ block.id # blocks.empty.id /\ block.instanceId = nullInstance
        THEN LET mesh == findMesh(ch, block.id)
                 instanceId == mesh.count
             IN  [data |-> setBlockInstanceId(d, x, y, z, instanceId),
                  children |->
                      withMesh(ch, block.id,
                          setMatrixAt(mesh, instanceId, setPosition(x, y, z)))]
        ELSE [data |-> d, children |-> ch]

addBlockInstance(d, ch, x, y, z) ==
    LET block == getBlock(d, x, y, z)
    IN  IF block # null /\ block.id # blocks.empty.id /\ block.instanceId = nullInstance
        THEN LET mesh == findMesh(ch, block.id)
                 instanceId == mesh.count
             IN  [data |-> setBlockInstanceId(d, x, y, z, instanceId),
                  children |->
                      withMesh(ch, block.id,
                          setMatrixAt([mesh EXCEPT !.count = mesh.count + 1],
                                      instanceId, setPosition(x, y, z)))]
        ELSE [data |-> d, children |-> ch]

\* Mutant: the removed cell keeps its instanceId (the last
\* setBlockInstanceId(x, y, z, null) is left out).
deleteBlockInstance_keepsId(d, ch, x, y, z) ==
    LET block == getBlock(d, x, y, z)
    IN  IF block.instanceId = nullInstance THEN [data |-> d, children |-> ch]
        ELSE LET mesh == findMesh(ch, block.id)
                 instanceId == block.instanceId
                 lastMatrix == getMatrixAt(mesh, mesh.count - 1)
                 v == applyMatrix4(lastMatrix)
                 d1 == setBlockInstanceId(d, v[1], v[2], v[3], instanceId)
                 mesh1 == setMatrixAt(mesh, instanceId, lastMatrix)
                 mesh2 == [mesh1 EXCEPT !.count = mesh1.count - 1]
             IN  [data |-> d1,
                  children |-> withMesh(ch, block.id, mesh2)]

\* Mutant: the last matrix is not copied into the freed slot.
deleteBlockInstance_noCopy(d, ch, x, y, z) ==
    LET block == getBlock(d, x, y, z)
    IN  IF block.instanceId = nullInstance THEN [data |-> d, children |-> ch]
        ELSE LET mesh == findMesh(ch, block.id)
                 instanceId == block.instanceId
                 lastMatrix == getMatrixAt(mesh, mesh.count - 1)
                 v == applyMatrix4(lastMatrix)
                 d1 == setBlockInstanceId(d, v[1], v[2], v[3], instanceId)
                 mesh2 == [mesh EXCEPT !.count = mesh.count - 1]
             IN  [data |-> setBlockInstanceId(d1, x, y, z, nullInstance),
                  children |-> withMesh(ch, block.id, mesh2)]

deleteBlockInstance(d, ch, x, y, z) ==
    LET block == getBlock(d, x, y, z)
    IN  IF block.instanceId = nullInstance THEN [data |-> d, children |-> ch]
        ELSE LET mesh == findMesh(ch, block.id)
                 instanceId == block.instanceId
                 lastMatrix == getMatrixAt(mesh, mesh.count - 1)
                 v == applyMatrix4(lastMatrix)
                 d1 == setBlockInstanceId(d, v[1], v[2], v[3], instanceId)
                 mesh1 == setMatrixAt(mesh, instanceId, lastMatrix)
                 mesh2 == [mesh1 EXCEPT !.count = mesh1.count - 1]
             IN  [data |-> setBlockInstanceId(d1, x, y, z, nullInstance),
                  children |-> withMesh(ch, block.id, mesh2)]

\* Mutant: the new block gets an instance only when it is not obscured.
addBlock_culled(d, ch, store, pos, x, y, z, blockId) ==
    LET block == getBlock(d, x, y, z)
    IN  IF block # null /\ block.id = blocks.empty.id
        THEN LET d1 == setBlockId(d, x, y, z, blockId)
                 g == IF isBlockObscured(d1, x, y, z)
                      THEN [data |-> d1, children |-> ch]
                      ELSE addBlockInstance(d1, ch, x, y, z)
             IN  [data |-> g.data, children |-> g.children,
                  dataStore |-> storeSet(store, pos.x, pos.z, x, y, z, blockId)]
        ELSE [data |-> d, children |-> ch, dataStore |-> store]

\* Mutant: `if (block)` without the test that the cell is empty.
addBlock_overwrites(d, ch, store, pos, x, y, z, blockId) ==
    LET block == getBlock(d, x, y, z)
    IN  IF block # null
        THEN LET g == addBlockInstance(setBlockId(d, x, y, z, blockId), ch, x, y, z)
             IN  [data |-> g.data, children |-> g.children,
                  dataStore |-> storeSet(store, pos.x, pos.z, x, y, z, blockId)]
        ELSE [data |-> d, children |-> ch, dataStore |-> store]

\* Mutant: `(block?.id ?? blocks.empty.id) === blocks.empty.id`, which lets a
\* coordinate without a cell through.
addBlock_absentAsEmpty(d, ch, store, pos, x, y, z, blockId) ==
    IF neighbourId(d, x, y, z) = blocks.empty.id
    THEN LET g == addBlockInstance(setBlockId(d, x, y, z, blockId), ch, x, y, z)
         IN  [data |-> g.data, children |-> g.children,
              dataStore |-> storeSet(store, pos.x, pos.z, x, y, z, blockId)]
    ELSE [data |-> d, children |-> ch, dataStore |-> store]

\* Mutant: the placed block is not written to the store.
addBlock_notStored(d, ch, store, pos, x, y, z, blockId) ==
    LET block == getBlock(d, x, y, z)
    IN  IF block # null /\ block.id = blocks.empty.id
        THEN LET g == addBlockInstance(setBlockId(d, x, y, z, blockId), ch, x, y, z)
             IN  [data |-> g.data, children |-> g.children, dataStore |-> store]
        ELSE [data |-> d, children |-> ch, dataStore |-> store]

\* Mutant: the store is written whether or not the block is placed.
addBlock_storesAlways(d, ch, store, pos, x, y, z, blockId) ==
    LET block == getBlock(d, x, y, z)
    IN  IF block # null /\ block.id = blocks.empty.id
        THEN LET g == addBlockInstance(setBlockId(d, x, y, z, blockId), ch, x, y, z)
             IN  [data |-> g.data, children |-> g.children,
                  dataStore |-> storeSet(store, pos.x, pos.z, x, y, z, blockId)]
        ELSE [data |-> d, children |-> ch,
              dataStore |-> storeSet(store, pos.x, pos.z, x, y, z, blockId)]

addBlock(d, ch, store, pos, x, y, z, blockId) ==
    LET block == getBlock(d, x, y, z)
    IN  IF block # null /\ block.id = blocks.empty.id
        THEN LET g == addBlockInstance(setBlockId(d, x, y, z, blockId), ch, x, y, z)
             IN  [data |-> g.data, children |-> g.children,
                  dataStore |-> storeSet(store, pos.x, pos.z, x, y, z, blockId)]
        ELSE [data |-> d, children |-> ch, dataStore |-> store]

\* Mutant: the deletion is not written to the store.
removeBlock_notStored(d, ch, store, pos, x, y, z) ==
    LET block == getBlock(d, x, y, z)
    IN  IF block # null /\ block.id # blocks.empty.id
        THEN LET g == deleteBlockInstance(d, ch, x, y, z)
             IN  [data |-> setBlockId(g.data, x, y, z, blocks.empty.id),
                  children |-> g.children,
                  dataStore |-> store]
        ELSE [data |-> d, children |-> ch, dataStore |-> store]

\* Mutant: the block under the removed one is given an instance when it has
\* none.
removeBlock_revealsBelow(d, ch, store, pos, x, y, z) ==
    LET block == getBlock(d, x, y, z)
    IN  IF block # null /\ block.id # blocks.empty.id
        THEN LET g == deleteBlockInstance(d, ch, x, y, z)
                 h == addBlockInstance(setBlockId(g.data, x, y, z, blocks.empty.id),
                                       g.children, x, y - 1, z)
             IN  [data |-> h.data,
                  children |-> h.children,
                  dataStore |-> storeSet(store, pos.x, pos.z, x, y, z, blocks.empty.id)]
        ELSE [data |-> d, children |-> ch, dataStore |-> store]

removeBlock(d, ch, store, pos, x, y, z) ==
    LET block == getBlock(d, x, y, z)
    IN  IF block # null /\ block.id # blocks.empty.id
        THEN LET g == deleteBlockInstance(d, ch, x, y, z)
             IN  [data |-> setBlockId(g.data, x, y, z, blocks.empty.id),
                  children |-> g.children,
                  dataStore |-> storeSet(store, pos.x, pos.z, x, y, z, blocks.empty.id)]
        ELSE [data |-> d, children |-> ch, dataStore |-> store]

----------------------------------------------------------------------------
\* The environment of the chunk: the noise (a fixed function of the seed, the
\* origin and the parameters), the contents of the store at construction,
\* and the coordinates the callers pass.

centre == <<1, 1, 1>>

\* Math.floor(size.height * scaledNoise) per column: inside the range
\* everywhere, at size.height everywhere, and a ramp that starts below 0 and
\* ends at or above size.height.
TerrainFields ==
    {[c \in Columns |-> h] : h \in {1, Height}}
        \cup {[c \in Columns |-> c[1] + c[2] - 1]}

\* Per resource, the cells where its noise value exceeds its scarcity: none;
\* a slab of stone with coal in its centre.
OreFields ==
    {<<{}, {}>>,
     <<{c \in Cells : c[1] = 1}, {centre}>>}

origin == [x |-> Width, z |-> 0]

\* The store at construction: empty, or holding changes of an earlier
\* session for this chunk and for the chunk at the world's origin.
InitialStores ==
    {emptyStore,
     storeSet(storeSet(storeSet(emptyStore,
         origin.x, origin.z, 1, 1, 1, blocks.empty.id),
         origin.x, origin.z, 0, 0, 0, blocks.coalOre.id),
         0, 0, 1, Height - 1, 1, blocks.stone.id)}

\* Targets of addBlock / removeBlock: the interior cell, the cell above it,
\* the first and the last cell of the scan, and one coordinate beyond each
\* kind of face.
EditCoords ==
    {centre, <<1, 2, 1>>, <<0, 0, 0>>, <<Width - 1, Height - 1, Width - 1>>,
     <<0 - 1, 1, 1>>, <<1, Height, 1>>, <<1, 1, Width>>}

\* Block ids the callers pass to addBlock: a terrain type and a resource
\* type.
PlaceIds == {blocks.grass.id, blocks.coalOre.id}

noCall == [op |-> "new", x |-> 0, y |-> 0, z |-> 0, blockId |-> blocks.empty.id,
           id |-> nullInstance, instanceId |-> nullInstance, count |-> nullInstance]

\* The call just made: its arguments and, of the cell it names, the id and
\* instanceId before the call (-1 when there is no such cell), with the count
\* before the call of the mesh the call is about (-1 when there is none).
callRecord(op, x, y, z, blockId, meshId) ==
    LET block == getBlock(data, x, y, z)
    IN  [op |-> op, x |-> x, y |-> y, z |-> z, blockId |-> blockId,
         id |-> IF block = null THEN nullInstance ELSE block.id,
         instanceId |-> IF block = null THEN nullInstance ELSE block.instanceId,
         count |-> IF \E i \in 1 .. Len(children) : children[i].name = meshId
                   THEN findMesh(children, meshId).count
                   ELSE nullInstance]

\* The fields of the chunk once generate() has run.
TypeOK ==
    /\ size \in [width : 1 .. MaxWidth, height : 1 .. MaxHeight]
    /\ loaded \in BOOLEAN
    /\ loaded => /\ data \in Grids
                 /\ children \in [1 .. Len(children) -> Meshes]
    /\ \A k \in DOMAIN dataStore : dataStore[k] \in BlockIds
    /\ position = origin
    /\ heightField \in TerrainFields
    /\ oreField \in OreFields

\* new WorldChunk(size, params, dataStore): the fields after construction.
constructed ==
    /\ data = [c \in {} |-> null]
    /\ loaded = FALSE
    /\ children = <<>>
    /\ dataStore \in InitialStores
    /\ position = origin
    /\ heightField \in TerrainFields
    /\ oreField \in OreFields
    /\ last = noCall
    /\ calls = 0

\* A chunk of the largest size.
Init ==
    /\ size = [width |-> MaxWidth, height |-> MaxHeight]
    /\ constructed

\* The chunk of width 2 and height 2.
smallSize == [width |-> 2, height |-> 2]

InitSmall ==
    /\ size = smallSize
    /\ constructed

Generate ==
    /\ calls < MaxCalls
    /\ LET g == generate(data, children, dataStore, position, heightField, oreField)
       IN  /\ data' = g.data
           /\ children' = g.children
    /\ loaded' = TRUE
    /\ last' = [noCall EXCEPT !.op = "generate"]
    /\ calls' = calls + 1
    /\ UNCHANGED <<size, dataStore, position, heightField, oreField>>

\* Callers edit a chunk that has been generated: before generate() this.data
\* is [] and data[x][y] of an in-bounds coordinate throws.
AddBlock(x, y, z, blockId) ==
    /\ loaded
    /\ calls < MaxCalls
    /\ LET r == addBlock(data, children, dataStore, position, x, y, z, blockId)
       IN  /\ data' = r.data
           /\ children' = r.children
           /\ dataStore' = r.dataStore
    /\ last' = callRecord("addBlock", x, y, z, blockId, blockId)
    /\ calls' = calls + 1
    /\ UNCHANGED <<size, loaded, position, heightField, oreField>>

RemoveBlock(x, y, z) ==
    /\ loaded
    /\ calls < MaxCalls
    /\ LET r == removeBlock(data, children, dataStore, position, x, y, z)
       IN  /\ data' = r.data
           /\ children' = r.children
           /\ dataStore' = r.dataStore
    /\ last' = callRecord("removeBlock", x, y, z, blocks.empty.id,
                          neighbourId(data, x, y, z))
    /\ calls' = calls + 1
    /\ UNCHANGED <<size, loaded, position, heightField, oreField>>

Next ==
    \/ Generate
    \/ \E c \in EditCoords, blockId \in PlaceIds : AddBlock(c[1], c[2], c[3], blockId)
    \/ \E c \in EditCoords : RemoveBlock(c[1], c[2], c[3])

Spec == Init /\ [][Next]_vars

SpecSmall == InitSmall /\ [][Next]_vars

----------------------------------------------------------------------------
\* Properties.

lastCell == <<last.x, last.y, last.z>>

\* The six axis-aligned neighbours of a coordinate.
Neighbours(c) ==
    {<<c[1] + 1, c[2], c[3]>>, <<c[1] - 1, c[2], c[3]>>,
     <<c[1], c[2] + 1, c[3]>>, <<c[1], c[2] - 1, c[3]>>,
     <<c[1], c[2], c[3] + 1>>, <<c[1], c[2], c[3] - 1>>}

\* The cells of block type t that own an instance.
InstancedCells(t) ==
    {c \in Cells : data[c].id = t /\ data[c].instanceId # nullInstance}

\* The mesh the chunk uses for block type t.
batch(t) == findMesh(children, t)

ownKey(c) == <<position.x, position.z, c[1], c[2], c[3]>>

\* C1: once generated, for every block type other than empty the count of
\* its mesh is the number of cells of that type with an instanceId, and
\* those instanceIds are pairwise distinct (as many ids as cells) and are
\* exactly 0 .. count - 1.
C1_BatchCount ==
    loaded =>
        \A t \in MeshIds :
            LET owners == InstancedCells(t)
                ids == {data[c].instanceId : c \in owners}
            IN  /\ batch(t).count = Cardinality(owners)
                /\ Cardinality(ids) = Cardinality(owners)
                /\ ids = 0 .. batch(t).count - 1

\* An addBlock has just appended an instance to a mesh that already had some.
C1_Witness ==
    /\ last.op = "addBlock"
    /\ last.id = blocks.empty.id
    /\ last.blockId \in MeshIds
    /\ last.count >= 1
    /\ batch(last.blockId).count >= 2

\* C2: once generated, an empty cell has no instanceId, and the instanceId
\* of a non-empty cell is null or an index below the count of the mesh of
\* the cell's own block type.
C2_CellInstance ==
    loaded =>
        \A c \in Cells :
            IF data[c].id = blocks.empty.id
            THEN data[c].instanceId = nullInstance
            ELSE \/ data[c].instanceId = nullInstance
                 \/ /\ 0 <= data[c].instanceId
                    /\ data[c].instanceId < batch(data[c].id).count

\* A removeBlock has just emptied a cell that owned an instance, while some
\* other non-empty cell has none.
C2_Witness ==
    /\ last.op = "removeBlock"
    /\ last.id \in MeshIds
    /\ last.instanceId # nullInstance
    /\ \E c \in Cells : data[c].id # blocks.empty.id /\ data[c].instanceId = nullInstance

\* C3: once generated, the matrix at the slot a cell's instanceId names, in
\* the mesh of the cell's block type, is the translation to the cell.
C3_Transforms ==
    loaded =>
        \A c \in Cells :
            data[c].instanceId # nullInstance =>
                /\ data[c].id \in MeshIds
                /\ data[c].instanceId \in 0 .. maxCount - 1
                /\ batch(data[c].id).instanceMatrix[data[c].instanceId] = [t |-> c, w |-> 1]

\* A removeBlock has just freed a slot that was neither the first nor the
\* last of its mesh.
C3_Witness ==
    /\ last.op = "removeBlock"
    /\ last.id \in MeshIds
    /\ 0 < last.instanceId
    /\ last.instanceId < last.count - 1

\* The other two cases of C3: the freed slot was the last one of several,
\* and it was the only one.
C3_LastSlotRemoved ==
    /\ last.op = "removeBlock"
    /\ last.id \in MeshIds
    /\ last.count >= 2
    /\ last.instanceId = last.count - 1

C3_OnlySlotRemoved ==
    /\ last.op = "removeBlock"
    /\ last.id \in MeshIds
    /\ last.count = 1
    /\ last.instanceId = 0

\* C4: right after generate(), a non-empty cell with all six neighbours in
\* the chunk has no instanceId exactly when all six are non-empty, and a
\* non-empty cell with a neighbour outside the chunk has an instanceId.
C4_Occlusion ==
    last.op = "generate" =>
        \A c \in Cells :
            data[c].id # blocks.empty.id =>
                IF Neighbours(c) \subseteq Cells
                THEN data[c].instanceId = nullInstance
                         <=> \A n \in Neighbours(c) : data[n].id # blocks.empty.id
                ELSE data[c].instanceId # nullInstance

\* generate() has just left the interior cell obscured, with the store
\* holding an entry for a cell of this chunk.
C4_Witness ==
    /\ last.op = "generate"
    /\ data[centre].id # blocks.empty.id
    /\ data[centre].instanceId = nullInstance
    /\ \E c \in Cells : ownKey(c) \in DOMAIN dataStore

\* generate() has just given the interior cell an instance because exactly
\* one of its neighbours is empty.
C4_ExposedInterior ==
    /\ last.op = "generate"
    /\ data[centre].instanceId # nullInstance
    /\ Cardinality({n \in Neighbours(centre) : data[n].id = blocks.empty.id}) = 1

\* What resource placement and terrain produce, before the overlay.
baseline ==
    generateTerrain(generateResources(initializeTerrain(data), oreField), heightField)

\* C5: right after generate(), a cell with an entry in the store under this
\* chunk's origin holds the stored id, and every other cell holds the id
\* resource placement and terrain gave it.
C5_OverlayPrecedence ==
    last.op = "generate" =>
        \A c \in Cells :
            IF ownKey(c) \in DOMAIN dataStore
            THEN data[c].id = dataStore[ownKey(c)]
            ELSE data[c].id = baseline[c].id

\* generate() has just applied a stored deletion of a generated block and a
\* stored block type that differs from the generated one.
C5_Witness ==
    /\ last.op = "generate"
    /\ \E c \in Cells :
           /\ ownKey(c) \in DOMAIN dataStore
           /\ dataStore[ownKey(c)] = blocks.empty.id
           /\ baseline[c].id # blocks.empty.id
    /\ \E c \in Cells :
           /\ ownKey(c) \in DOMAIN dataStore
           /\ dataStore[ownKey(c)] # blocks.empty.id
           /\ baseline[c].id # blocks.empty.id
           /\ baseline[c].id # dataStore[ownKey(c)]

\* The resources whose noise value exceeds their scarcity at a cell.
Qualifying(c) == {r \in 1 .. Len(resources) : c \in oreField[r]}

\* The height of the column of a cell: the noise height, brought into
\* 0 .. size.height - 1.
columnHeight(c) ==
    LET raw == heightField[<<c[1], c[3]>>]
    IN  IF raw < 0 THEN 0 ELSE IF raw > Height - 1 THEN Height - 1 ELSE raw

\* C6: right after generate() with an empty store, a cell at the height of
\* its column is grass, a cell below it is the last qualifying resource or
\* else dirt, and a cell above it is empty.
C6_ResourceTerrainOrdering ==
    (last.op = "generate" /\ DOMAIN dataStore = {}) =>
        \A c \in Cells :
            data[c].id =
                IF c[2] = columnHeight(c) THEN blocks.grass.id
                ELSE IF c[2] < columnHeight(c)
                THEN IF Qualifying(c) = {} THEN blocks.dirt.id
                     ELSE resources[CHOOSE r \in Qualifying(c) :
                                        \A q \in Qualifying(c) : q <= r].id
                ELSE blocks.empty.id

\* generate() has just run with an empty store where a resource qualified
\* at, below and above the surface, and nowhere in some cell below it.
C6_Witness ==
    /\ last.op = "generate"
    /\ DOMAIN dataStore = {}
    /\ \E c \in Cells : c[2] = columnHeight(c) /\ Qualifying(c) # {}
    /\ \E c \in Cells : c[2] < columnHeight(c) /\ Qualifying(c) # {}
    /\ \E c \in Cells : c[2] > columnHeight(c) /\ Qualifying(c) # {}
    /\ \E c \in Cells : c[2] < columnHeight(c) /\ Qualifying(c) = {}

\* C7: after addBlock of a non-empty id on an empty cell, the cell holds the
\* id, its instanceId is the former count of that id's mesh, the count is
\* one more, and the store holds the id under the chunk's origin and the
\* cell's coordinate.
C7_AddBlock ==
    (last.op = "addBlock" /\ last.id = blocks.empty.id /\ last.blockId \in MeshIds) =>
        /\ data[lastCell].id = last.blockId
        /\ data[lastCell].instanceId = last.count
        /\ batch(last.blockId).count = last.count + 1
        /\ ownKey(lastCell) \in DOMAIN dataStore
        /\ dataStore[ownKey(lastCell)] = last.blockId

\* addBlock has just filled an empty cell whose six neighbours are all
\* non-empty cells.
C7_Witness ==
    /\ last.op = "addBlock"
    /\ last.id = blocks.empty.id
    /\ last.blockId \in MeshIds
    /\ Neighbours(lastCell) \subseteq Cells
    /\ \A n \in Neighbours(lastCell) : data[n].id # blocks.empty.id

\* C8: after removeBlock on a non-empty cell, the cell is empty without
\* instanceId, the store holds the empty id for it, and the count of the
\* mesh of its former type is one less when it had an instance and the same
\* when it had none.
C8_RemoveBlock ==
    (last.op = "removeBlock" /\ last.id \in MeshIds) =>
        /\ data[lastCell].id = blocks.empty.id
        /\ data[lastCell].instanceId = nullInstance
        /\ ownKey(lastCell) \in DOMAIN dataStore
        /\ dataStore[ownKey(lastCell)] = blocks.empty.id
        /\ batch(last.id).count =
               IF last.instanceId # nullInstance THEN last.count - 1 ELSE last.count

\* removeBlock has just emptied an obscured cell of a mesh with instances.
C8_Witness ==
    /\ last.op = "removeBlock"
    /\ last.id \in MeshIds
    /\ last.instanceId = nullInstance
    /\ last.count >= 1

\* C9: addBlock on a non-empty cell and removeBlock on an empty cell change
\* no cell, no mesh and no store entry, and no addBlock or removeBlock turns
\* a non-empty cell into a cell of another non-empty type.
C9_NoOps ==
    [][/\ (\/ last'.op = "addBlock" /\ last'.id \in MeshIds
           \/ last'.op = "removeBlock" /\ last'.id = blocks.empty.id)
              => UNCHANGED <<data, children, dataStore>>
       /\ last'.op \in {"addBlock", "removeBlock"}
              => \A c \in Cells :
                     (data[c].id \in MeshIds /\ data'[c].id \in MeshIds)
                         => data'[c].id = data[c].id]_vars

\* addBlock has just been called with another block type on a non-empty cell.
C9_Witness ==
    /\ last.op = "addBlock"
    /\ last.id \in MeshIds
    /\ last.blockId \in MeshIds
    /\ last.blockId # last.id

\* removeBlock has just been called on an empty cell.
C9_RemoveOnEmpty ==
    /\ last.op = "removeBlock"
    /\ last.id = blocks.empty.id

\* C10: for a coordinate outside the chunk, getBlock gives null, no cell
\* next to it is obscured, and addBlock and removeBlock change no cell, no
\* mesh and no store entry.
C10_OutOfBounds ==
    [][(last'.op \in {"addBlock", "removeBlock"}
            /\ <<last'.x, last'.y, last'.z>> \notin Cells)
          => /\ getBlock(data, last'.x, last'.y, last'.z) = null
             /\ \A c \in Cells :
                    <<last'.x, last'.y, last'.z>> \in Neighbours(c)
                        => ~isBlockObscured(data, c[1], c[2], c[3])
             /\ UNCHANGED <<data, children, dataStore>>]_vars

\* addBlock of a non-empty id has just been called on a coordinate outside
\* the chunk.
C10_Witness ==
    /\ last.op = "addBlock"
    /\ lastCell \notin Cells
    /\ last.blockId \in MeshIds

----------------------------------------------------------------------------
\* The batches of the chunk in order: name and count of each mesh.
batches(ch) == [i \in 1 .. Len(ch) |-> [name |-> ch[i].name, count |-> ch[i].count]]

\* The fields of a chunk that has just been constructed.
freshData == [c \in {} |-> null]
freshChildren == <<>>

----------------------------------------------------------------------------
\* The scenario of C12: width 2, height 2, an empty store, no resource above
\* its scarcity, computed height 1 in every column, generate() just run.
smallScenario ==
    /\ size = smallSize
    /\ last.op = "generate"
    /\ DOMAIN dataStore = {}
    /\ \A r \in 1 .. Len(resources) : oreField[r] = {}
    /\ \A c \in Columns : heightField[c] = 1

\* C12: in the scenario, generate() leaves every cell with y = 0 dirt and
\* every cell with y = 1 grass, each of the 8 cells has an instance id, and
\* the dirt batch and the grass batch both have count 4.
C12_SmallChunk ==
    smallScenario
        => /\ Cardinality(DOMAIN data) = 8
           /\ \A c \in Cells :
                  /\ c[2] = 0 => data[c].id = blocks.dirt.id
                  /\ c[2] = 1 => data[c].id = blocks.grass.id
                  /\ data[c].instanceId # nullInstance
           /\ batch(blocks.dirt.id).count = 4
           /\ batch(blocks.grass.id).count = 4

\* The scenario happens, and the cell farthest from the origin is grass.
C12_Witness ==
    /\ smallScenario
    /\ loaded
    /\ data[<<1, 1, 1>>].id = blocks.grass.id

----------------------------------------------------------------------------
\* The cells other than the target of the call whose instance id the step
\* changes.
moved == {c \in Cells \ {<<last'.x, last'.y, last'.z>>} :
             data'[c].instanceId # data[c].instanceId}

\* C13: the frame of the edits.  addBlock changes no cell other than its
\* target and the count of no batch other than the new block's.  removeBlock
\* changes the block id of no cell other than its target, the instance id of
\* at most one other cell (the cell of the removed block's type that held the
\* last active slot, which receives the removed cell's slot) and the count
\* of no batch other than the removed block's.
C13_Frame ==
    [][/\ last'.op = "addBlock"
           => /\ \A c \in Cells \ {<<last'.x, last'.y, last'.z>>} : data'[c] = data[c]
              /\ \A t \in MeshIds \ {last'.blockId} :
                     findMesh(children', t).count = findMesh(children, t).count
       /\ last'.op = "removeBlock"
           => /\ \A c \in Cells \ {<<last'.x, last'.y, last'.z>>} :
                     data'[c].id = data[c].id
              /\ Cardinality(moved) <= 1
              /\ \A c \in moved :
                     /\ data[c].id = last'.id
                     /\ data[c].instanceId = last'.count - 1
                     /\ data'[c].instanceId = last'.instanceId
              /\ \A t \in MeshIds \ {last'.id} :
                     findMesh(children', t).count = findMesh(children, t).count]_vars

\* removeBlock has removed a block, and a block next to it that the removal
\* exposes has no instance.
C13_Witness ==
    /\ last.op = "removeBlock"
    /\ last.id \in MeshIds
    /\ \E n \in Neighbours(lastCell) \cap Cells :
           /\ data[n].id # blocks.empty.id
           /\ data[n].instanceId = nullInstance

\* removeBlock has moved the instance of another cell into the removed slot.
C13_Moved ==
    /\ last.op = "removeBlock"
    /\ last.instanceId # nullInstance
    /\ last.instanceId < last.count - 1
    /\ \E c \in Cells \ {lastCell} :
           data[c].id = last.id /\ data[c].instanceId = last.instanceId

\* addBlock has placed a block next to a block that has an instance.
C13_Added ==
    /\ last.op = "addBlock"
    /\ last.id = blocks.empty.id
    /\ last.blockId \in MeshIds
    /\ \E n \in Neighbours(lastCell) \cap Cells : data[n].instanceId # nullInstance

----------------------------------------------------------------------------
\* C14: every generate() is a full rebuild.  After it the chunk has exactly
\* one batch per block type other than empty, and every instance id is null
\* or the one this run's mesh step assigned: the cells that have one are the
\* non-empty cells that are not obscured, and a scan of the block ids from
\* cells without instance ids and from new batches gives the same instance
\* ids and the same batches.
C14_FullRebuild ==
    last.op = "generate"
        => /\ Len(children) = Cardinality(MeshIds)
           /\ \A t \in MeshIds :
                  Cardinality({i \in 1 .. Len(children) : children[i].name = t}) = 1
           /\ \A c \in Cells :
                  data[c].instanceId # nullInstance
                      <=> /\ data[c].id # blocks.empty.id
                          /\ ~isBlockObscured(data, c[1], c[2], c[3])
           /\ LET g == meshScan([c \in Cells |->
                                    [id |-> data[c].id, instanceId |-> nullInstance]])
              IN  /\ g.data = data
                  /\ objectValues(g.meshes) = children

\* generate() has run again after addBlock gave the centre an instance, and
\* the centre, now obscured, has none.
C14_Witness ==
    /\ last.op = "generate"
    /\ calls >= 2
    /\ storeContains(dataStore, position.x, position.z, centre[1], centre[2], centre[3])
    /\ dataStore[ownKey(centre)] \in MeshIds
    /\ data[centre].instanceId = nullInstance

----------------------------------------------------------------------------
\* The grid of the last generate() after its resource step.
afterResources == generateResources(initializeTerrain(data), oreField)

\* C15: after the resource step of generate(), a cell where one or more
\* resources exceed their scarcity holds the id of the one that comes last
\* in the order of `resources`, and a cell where none does is empty.
C15_LastResourceWins ==
    last.op = "generate"
        => LET d == afterResources
           IN  \A c \in Cells :
                   /\ Qualifying(c) = {} => d[c].id = blocks.empty.id
                   /\ \A r \in Qualifying(c) :
                          (\A q \in Qualifying(c) : q <= r)
                              => d[c].id = resources[r].id
                   /\ d[c].instanceId = nullInstance

\* generate() has run where two resources qualify at the centre, one at
\* another cell and none at a third, and the centre, under the surface,
\* holds the later of its two.
C15_Witness ==
    /\ last.op = "generate"
    /\ Cardinality(Qualifying(centre)) = 2
    /\ \E c \in Cells : Cardinality(Qualifying(c)) = 1
    /\ \E c \in Cells : Qualifying(c) = {}
    /\ data[centre].id = resources[Len(resources)].id

----------------------------------------------------------------------------
\* Values of Math.floor(this.size.height * scaledNoise), from below
\* -size.height to above 2 * size.height.
RawHeights == (0 - Height - 1) .. (2 * Height + 1)

\* The heights of the grass cells of a column.
grassAt(col) ==
    {y \in 0 .. Height - 1 : data[<<col[1], y, col[2]>>].id = blocks.grass.id}

\* C16: the height used for a column lies in 0 .. size.height - 1 whatever
\* the computed value, negative or at or above size.height; so right after
\* generate() with an empty store every column has exactly one grass cell,
\* every cell above it is empty and every cell below it is not.
C16_ClampedHeight ==
    /\ \A raw \in RawHeights : clampHeight(raw) \in 0 .. Height - 1
    /\ (last.op = "generate" /\ DOMAIN dataStore = {})
           => \A col \in Columns :
                  /\ clampHeight(heightField[col]) \in 0 .. Height - 1
                  /\ Cardinality(grassAt(col)) = 1
                  /\ \A g \in grassAt(col), y \in 0 .. Height - 1 :
                         /\ y > g => data[<<col[1], y, col[2]>>].id = blocks.empty.id
                         /\ y < g => data[<<col[1], y, col[2]>>].id # blocks.empty.id

\* generate() has run with an empty store where the computed height of one
\* column is negative and that of another is at or above size.height: the
\* first has its grass at 0, the second at size.height - 1.
C16_Witness ==
    /\ last.op = "generate"
    /\ DOMAIN dataStore = {}
    /\ \E col \in Columns : heightField[col] < 0 /\ grassAt(col) = {0}
    /\ \E col \in Columns : heightField[col] >= Height /\ grassAt(col) = {Height - 1}

----------------------------------------------------------------------------
\* C17: once generate() has run the grid holds exactly the
\* width x height x width cells of the chunk, whatever calls follow; the
\* step of the terrain loop at y = size.height, and getBlock, setBlockId and
\* setBlockInstanceId at a coordinate outside the chunk, read no cell and
\* leave the grid as it is.
C17_GridExtent ==
    /\ loaded => /\ DOMAIN data = Cells
                 /\ Cardinality(DOMAIN data) = Width * Height * Width
    /\ \A col \in Columns, height \in 0 .. Height - 1 :
           terrainStep(data, col[1], Height, col[2], height) = data
    /\ \A c \in EditCoords \ Cells :
           /\ getBlock(data, c[1], c[2], c[3]) = null
           /\ \A id \in BlockIds : setBlockId(data, c[1], c[2], c[3], id) = data
           /\ setBlockInstanceId(data, c[1], c[2], c[3], 0) = data

\* After generate() and another call, addBlock or removeBlock has been
\* called on the coordinate just above the chunk.
C17_Witness ==
    /\ loaded
    /\ calls >= 3
    /\ last.op \in {"addBlock", "removeBlock"}
    /\ last.y = Height
    /\ last.id = nullInstance
    /\ Cardinality(DOMAIN data) = Width * Height * Width

----------------------------------------------------------------------------
\* Every cell with an entry in the store under the chunk's origin holds the
\* stored id.
storeAgrees(d, store) ==
    \A c \in Cells :
        storeContains(store, position.x, position.z, c[1], c[2], c[3])
            => storeGet(store, position.x, position.z, c[1], c[2], c[3]) = d[c].id

\* C18: after generate() and after every call that follows, the id the store
\* holds under the chunk's origin for a cell is the cell's block id; and
\* addBlock on an occupied cell, removeBlock on an empty cell and either on a
\* coordinate outside the chunk leave the store's entries as they are.
C18_StoreAgrees ==
    [][/\ loaded' => storeAgrees(data', dataStore')
       /\ (last'.op = "addBlock" /\ last'.id # blocks.empty.id)
              => DOMAIN dataStore' = DOMAIN dataStore /\ dataStore' = dataStore
       /\ (last'.op = "removeBlock" /\ last'.id \notin MeshIds)
              => DOMAIN dataStore' = DOMAIN dataStore /\ dataStore' = dataStore]_vars

\* addBlock has just been called with another id on an occupied cell that
\* has an entry in the store, and the entry is the cell's id.
C18_Witness ==
    /\ last.op = "addBlock"
    /\ last.id \in MeshIds
    /\ last.blockId # last.id
    /\ storeContains(dataStore, position.x, position.z, last.x, last.y, last.z)
    /\ dataStore[ownKey(lastCell)] = data[lastCell].id

\* The store holds, for cells of the chunk, an id placed by addBlock, an
\* empty id written by removeBlock and an entry it had at construction.
C18_Mixed ==
    /\ loaded
    /\ \E c \in Cells :
           /\ ownKey(c) \in DOMAIN dataStore
           /\ dataStore[ownKey(c)] = blocks.grass.id
    /\ \E c \in Cells :
           /\ ownKey(c) \in DOMAIN dataStore
           /\ dataStore[ownKey(c)] = blocks.empty.id
           /\ c # centre
    /\ ownKey(<<0, 0, 0>>) \in DOMAIN dataStore
    /\ dataStore[ownKey(<<0, 0, 0>>)] = blocks.coalOre.id

----------------------------------------------------------------------------
\* C19: generate() run again on a generated chunk, after whatever addBlock
\* and removeBlock calls, with the seed, origin, size and parameters as they
\* were, leaves every cell the block id it had just before; the instance
\* ids are assigned anew.
C19_EditsSurvive ==
    [][(loaded /\ last'.op = "generate")
           => /\ DOMAIN data' = DOMAIN data
              /\ \A c \in Cells : data'[c].id = data[c].id]_vars

\* generate() has run again after removeBlock emptied the one cell through
\* which the centre is exposed: the cell is still empty, and the centre,
\* which had no instance before this run, has one.
C19_Witness ==
    /\ last.op = "generate"
    /\ calls >= 2
    /\ data[centre].id # blocks.empty.id
    /\ data[centre].instanceId # nullInstance
    /\ \E c \in Neighbours(centre) :
           /\ ownKey(c) \in DOMAIN dataStore
           /\ dataStore[ownKey(c)] = blocks.empty.id
           /\ data[c].id = blocks.empty.id
           /\ \A n \in Neighbours(centre) \ {c} : data[n].id # blocks.empty.id

\* generate() has run again after addBlock placed a block that the terrain
\* and the resources do not produce, and the block is still there.
C19_AddedSurvives ==
    /\ last.op = "generate"
    /\ calls >= 2
    /\ \E c \in Cells :
           /\ ownKey(c) \in DOMAIN dataStore
           /\ dataStore[ownKey(c)] \in MeshIds
           /\ baseline[c].id # dataStore[ownKey(c)]
           /\ data[c].id = dataStore[ownKey(c)]
           /\ c # <<0, 0, 0>>

====
